---- MODULE Spec2Model ----
(***************************************************************************)
(* One chat call of poon-llm's LLM.chat: the streaming response handler,   *)
(* the onUpdate throttle (msg / isUpdating / chain / count), the final     *)
(* flush, and the timeout / error listeners.                               *)
(*                                                                         *)
(* Text is a sequence of one-character strings.  JavaScript's run-to-      *)
(* completion scheduling is modelled by `tick`: it is TRUE from the first  *)
(* 'line' event of a data chunk until the microtask checkpoint that ends   *)
(* the chunk, and no other event handler runs in between.  Promise jobs    *)
(* that become runnable inside a handler (the next chain link, the         *)
(* continuation of `await chain`, finalResponse) run in the checkpoint of  *)
(* that same handler, so they are part of the action that models it.       *)
(*                                                                         *)
(* Spec is one call; XmlSpec is parseXml on a text; PairSpec is two calls  *)
(* on one instance; LiveSpec is a raw-mode call under fair scheduling.     *)
(***************************************************************************)
EXTENDS Integers, Sequences, FiniteSets, TLC

\* Bounds of the model.
MaxLines == 3       \* wire events (lines) delivered on one response
MaxErrChunks == 1   \* 'data' chunks of an error body
MaxPieces == 5      \* pieces a text given to parseXml is put together from
MaxPairLines == 2   \* wire events delivered to two concurrent calls together

\* The `null` passed as sequence argument by finalResponse.
Null == -1

\* Characters that deltas and the prefill are made of.
Chars == {"[", "1", "]"}
DeltaTexts == {<<"[">>, <<"1">>, <<"]">>}
Prefills == {<<>>, <<"[">>}
StatusCodes == {200, 399, 400, 500}

\* Texts and allow-lists given to parseXml.  A tag name is a sequence of
\* characters; a text is the concatenation of at most MaxPieces pieces.
Pieces ==
  {<<"<", "a", ">">>, <<"<", "/", "a", ">">>, <<"<", "A", ">">>,
   <<"<", "b", ">">>, <<" ", "1", " ">>}
AllowLists == {<< <<"a">> >>, << <<"A">>, <<"b">> >>, << <<"c">> >>}
WordChars == {"a", "A", "b", "c", "1"}

VARIABLES
  json,        \* option json (truthy or not)
  hasUpdate,   \* option onUpdate is configured
  prefill,     \* option prefill
  xml,         \* option xml: [set, tags], set = FALSE when it is not given
  status,      \* "sent" | "ok" | "err": the response seen by the request callback
  stream,      \* "none" | "open" | "ended" | "destroyed": the response stream
  lines,       \* number of wire events delivered so far
  received,    \* history: the non-empty deltas, in arrival order
  tick,        \* inside the synchronous part of a data chunk
  errChunks,   \* handleError: chunks appended to body
  errReported, \* handleError: the 'end' listener has logged the body
  msg,         \* let msg
  isUpdating,  \* let isUpdating
  count,       \* let count
  queued,      \* chain: task callbacks attached with chain.then and not yet run
  schedAt,     \* history: msg as it was when each of those callbacks was attached
  chainErr,    \* chain: "none" | "callback" | "parse" (why the chain rejected)
  timers,      \* pending setTimeout(() => isUpdating = false, 150)
  calls,       \* history: every onUpdate invocation begun, [seq, snap, sched]
  inflight,    \* indices into calls of invocations begun and not yet settled
  res,         \* finalResponse's local res
  pc,          \* position of the request callback
  promise,     \* "pending" | "resolved" | "rejected": the promise chat returned
  result,      \* value the promise resolved with
  rejectKind,  \* "none" | "timeout" | "transport": what reject was called with
  xText,       \* parseXml: the argument msg
  xData,       \* parseXml: const data = extractTags(msg)
  xOut,        \* parseXml: the returned mapping
  xPc,         \* "off" | "call" | "done": position of the parseXml call
  peer         \* a second chat call on the same LLM instance: its closure
               \* variables and its response, as one record

xmlVars == <<xText, xData, xOut, xPc>>
optVars == <<json, hasUpdate, prefill, xml, xmlVars>>
cfgVars == <<optVars, peer>>
envVars == <<status, stream, lines, received, tick, errChunks, errReported>>
sessVars == <<msg, isUpdating, count, queued, schedAt, chainErr, timers, calls, inflight,
              res, pc, promise, result, rejectKind>>
vars == <<cfgVars, envVars, sessVars>>

----------------------------------------------------------------------------
\* Values handed to onUpdate and to resolve: a string (raw mode), or a parsed
\* JSON number or array; Undefined before any is assigned.
Str(text) == [t |-> "str", n |-> 0, items |-> <<>>, text |-> text]
Num(n) == [t |-> "num", n |-> n, items |-> <<>>, text |-> <<>>]
Arr(items) == [t |-> "arr", n |-> 0, items |-> items, text |-> <<>>]
Undefined == [t |-> "undefined", n |-> 0, items |-> <<>>, text |-> <<>>]
ParseFail == [ok |-> FALSE, val |-> Num(0), next |-> 0]

\* JSON.parse restricted to texts over Chars: a value is a run of digits or
\* an array; without a comma in the alphabet an array holds at most one value.
RECURSIVE ParseNumber(_, _, _)
ParseNumber(s, i, acc) ==
  IF i <= Len(s) /\ s[i] = "1"
  THEN ParseNumber(s, i + 1, 10 * acc + 1)
  ELSE [ok |-> TRUE, val |-> Num(acc), next |-> i]

RECURSIVE ParseValue(_, _)
ParseValue(s, i) ==
  IF i > Len(s) THEN ParseFail
  ELSE IF s[i] = "1" THEN ParseNumber(s, i, 0)
  ELSE IF s[i] = "[" THEN
    IF i + 1 > Len(s) THEN ParseFail
    ELSE IF s[i + 1] = "]" THEN [ok |-> TRUE, val |-> Arr(<<>>), next |-> i + 2]
    ELSE LET r == ParseValue(s, i + 1) IN
         IF r.ok /\ r.next <= Len(s) /\ s[r.next] = "]"
         THEN [ok |-> TRUE, val |-> Arr(<<r.val>>), next |-> r.next + 1]
         ELSE ParseFail
  ELSE ParseFail

\* parseJson(msg): [ok, val]; ok = FALSE is the thrown 'Failed to parse response'.
parseJson(text) ==
  LET r == ParseValue(text, 1) IN
  IF r.ok /\ r.next = Len(text) + 1
  THEN [ok |-> TRUE, val |-> r.val]
  ELSE [ok |-> FALSE, val |-> Num(0)]

----------------------------------------------------------------------------
\* Tag extraction.  A TagMap is the object extractTags builds, kept as the
\* sequence of its properties in insertion order: [key, isArray, items],
\* a string value being the one element of items.
TagMap(m) == [t |-> "tags", n |-> 0, items |-> m, text |-> <<>>]

\* String.prototype.toLowerCase and trim, on the characters of the model.
Lower(c) == IF c = "A" THEN "a" ELSE c
LowerName(name) == [i \in 1..Len(name) |-> Lower(name[i])]

RECURSIVE TrimLeft(_)
TrimLeft(t) ==
  IF t # <<>> /\ Head(t) = " " THEN TrimLeft(Tail(t)) ELSE t

RECURSIVE TrimRight(_)
TrimRight(t) ==
  IF t # <<>> /\ t[Len(t)] = " " THEN TrimRight(SubSeq(t, 1, Len(t) - 1)) ELSE t

Trim(t) == TrimRight(TrimLeft(t))

MinOf(S) == CHOOSE x \in S : \A y \in S : x <= y

\* The regex /<(\w+)>([\s\S]*?)(?:<\/\1>|$)/g.
\* WordEnd: the position after the greedy \w+ that starts at i.
RECURSIVE WordEnd(_, _)
WordEnd(text, i) ==
  IF i <= Len(text) /\ text[i] \in WordChars THEN WordEnd(text, i + 1) ELSE i

\* <(\w+)> matches at p.
OpensAt(text, p) ==
  /\ p + 2 <= Len(text)
  /\ text[p] = "<"
  /\ text[p + 1] \in WordChars
  /\ WordEnd(text, p + 1) <= Len(text)
  /\ text[WordEnd(text, p + 1)] = ">"

\* <\/\1> matches at j: the back-reference is the name as it was written.
ClosesAt(text, j, name) ==
  /\ j + Len(name) + 2 <= Len(text)
  /\ text[j] = "<"
  /\ text[j + 1] = "/"
  /\ SubSeq(text, j + 2, j + 1 + Len(name)) = name
  /\ text[j + 2 + Len(name)] = ">"

NoMatch == [found |-> FALSE, start |-> 0, name |-> <<>>, content |-> <<>>,
            cs |-> 0, end |-> 0]

\* Mutant of RegexExec: the pattern has no |$ alternative.
RegexExec_NoEndFallback(text, from) ==
  LET C == {p \in from..Len(text) :
              /\ OpensAt(text, p)
              /\ \E j \in p..Len(text) :
                   j >= WordEnd(text, p + 1) + 1
                   /\ ClosesAt(text, j, SubSeq(text, p + 1, WordEnd(text, p + 1) - 1))}
  IN IF C = {} THEN NoMatch
     ELSE LET p == MinOf(C)
              we == WordEnd(text, p + 1)
              name == SubSeq(text, p + 1, we - 1)
              j == MinOf({k \in (we + 1)..Len(text) : ClosesAt(text, k, name)})
          IN [found |-> TRUE, start |-> p, name |-> name, cs |-> we + 1,
              content |-> SubSeq(text, we + 1, j - 1),
              end |-> j + Len(name) + 3]

\* regex.exec(text) with lastIndex at position from (1-based): the leftmost
\* match, its content the shortest up to the closing tag or the end of text.
RegexExec(text, from) ==
  LET C == {p \in from..Len(text) : OpensAt(text, p)}
  IN IF C = {} THEN NoMatch
     ELSE LET p == MinOf(C)
              we == WordEnd(text, p + 1)
              name == SubSeq(text, p + 1, we - 1)
              J == {k \in (we + 1)..Len(text) : ClosesAt(text, k, name)}
          IN IF J # {}
             THEN [found |-> TRUE, start |-> p, name |-> name, cs |-> we + 1,
                   content |-> SubSeq(text, we + 1, MinOf(J) - 1),
                   end |-> MinOf(J) + Len(name) + 3]
             ELSE [found |-> TRUE, start |-> p, name |-> name, cs |-> we + 1,
                   content |-> SubSeq(text, we + 1, Len(text)),
                   end |-> Len(text) + 1]

\* The matches of the while loop, in order.
RECURSIVE AllMatches(_, _)
AllMatches(text, from) ==
  LET m == RegexExec(text, from) IN
  IF m.found THEN <<m>> \o AllMatches(text, m.end) ELSE <<>>

\* Index of the property key in a TagMap, 0 when it has none.
IndexOf(m, key) ==
  LET S == {i \in 1..Len(m) : m[i].key = key} IN
  IF S = {} THEN 0 ELSE MinOf(S)

\* Mutant of Put: a second occurrence replaces the first.
Put_NoPromote(m, key, val) ==
  LET i == IndexOf(m, key) IN
  IF i = 0
  THEN Append(m, [key |-> key, isArray |-> FALSE, items |-> <<val>>])
  ELSE IF ~m[i].isArray
  THEN [m EXCEPT ![i] = [key |-> key, isArray |-> FALSE, items |-> <<val>>]]
  ELSE [m EXCEPT ![i].items = Append(@, val)]

\* The body of the while loop: promote to array, append, or first time.
Put(m, key, val) ==
  LET i == IndexOf(m, key) IN
  IF i # 0 /\ ~m[i].isArray
  THEN [m EXCEPT ![i] = [key |-> key, isArray |-> TRUE,
                         items |-> <<m[i].items[1], val>>]]
  ELSE IF i # 0
  THEN [m EXCEPT ![i].items = Append(@, val)]
  ELSE Append(m, [key |-> key, isArray |-> FALSE, items |-> <<val>>])

RECURSIVE FoldMatches(_, _)
FoldMatches(ms, acc) ==
  IF ms = <<>> THEN acc
  ELSE FoldMatches(Tail(ms),
                   Put(acc, LowerName(Head(ms).name), Trim(Head(ms).content)))

extractTags(text) == FoldMatches(AllMatches(text, 1), <<>>)

\* if (data[tag]): an array is truthy, a string is truthy unless empty.
Truthy(e) == e.isArray \/ e.items[1] # <<>>

\* res[tag] = data[tag].
Assign(m, e) ==
  IF IndexOf(m, e.key) = 0 THEN Append(m, e)
  ELSE [m EXCEPT ![IndexOf(m, e.key)] = e]

\* xmlTags.reduce(...).
RECURSIVE ReduceTags(_, _, _)
ReduceTags(data, tags, acc) ==
  IF tags = <<>> THEN acc
  ELSE LET tag == LowerName(Head(tags))
           i == IndexOf(data, tag)
       IN ReduceTags(data, Tail(tags),
                     IF i # 0 /\ Truthy(data[i]) THEN Assign(acc, data[i])
                     ELSE acc)

parseXml(text, xmlTags) == ReduceTags(extractTags(text), xmlTags, <<>>)

\* parseResponse(msg): the output transform.
parseResponse(text) ==
  IF json THEN parseJson(text)
  ELSE IF xml.set THEN [ok |-> TRUE, val |-> TagMap(parseXml(text, xml.tags))]
  ELSE [ok |-> TRUE, val |-> Str(text)]

----------------------------------------------------------------------------
\* Wire events and parseDelta.  shape "anthropic" is {delta: {text}},
\* "openai" is {choices: [{delta: {content}}]}, "other" is JSON with neither,
\* "garbage" is a payload JSON.parse rejects.
WireEvents ==
  [shape : {"anthropic", "openai"}, text : DeltaTexts \cup {<<>>}]
    \cup [shape : {"other", "garbage"}, text : {<<>>}]

parseDelta(ev) ==
  IF ev.shape = "garbage" THEN <<>>
  ELSE IF ev.shape = "anthropic" /\ ev.text # <<>> THEN ev.text
  ELSE IF ev.shape = "openai" THEN ev.text
  ELSE <<>>

----------------------------------------------------------------------------
\* The session as a record, so that a handler and the promise jobs it makes
\* runnable compose as functions.
Cur ==
  [msg |-> msg, isUpdating |-> isUpdating, count |-> count, queued |-> queued,
   schedAt |-> schedAt,
   chainErr |-> chainErr, timers |-> timers, calls |-> calls,
   inflight |-> inflight, res |-> res, pc |-> pc, promise |-> promise,
   result |-> result, rejectKind |-> rejectKind]

Apply(s) ==
  /\ msg' = s.msg
  /\ isUpdating' = s.isUpdating
  /\ count' = s.count
  /\ queued' = s.queued
  /\ schedAt' = s.schedAt
  /\ chainErr' = s.chainErr
  /\ timers' = s.timers
  /\ calls' = s.calls
  /\ inflight' = s.inflight
  /\ res' = s.res
  /\ pc' = s.pc
  /\ promise' = s.promise
  /\ result' = s.result
  /\ rejectKind' = s.rejectKind

\* Invocations in flight that were started by a chain link.
SeqInFlight(s) == {i \in s.inflight : s.calls[i].seq # Null}

\* resolve(v) and reject(e) of the promise chat returned: settle it once.
resolve(s, v) ==
  IF s.promise = "pending"
  THEN [s EXCEPT !.promise = "resolved", !.result = v]
  ELSE s

reject(s, kind) ==
  IF s.promise = "pending"
  THEN [s EXCEPT !.promise = "rejected", !.rejectKind = kind]
  ELSE s

\* Mutant of onLine: a delta that arrives while busy is dropped.
onLine_DropWhileBusy(s, delta) ==
  IF s.isUpdating THEN s
  ELSE [s EXCEPT !.msg = s.msg \o delta,
                 !.queued = IF hasUpdate THEN @ + 1 ELSE @,
                 !.schedAt = IF hasUpdate THEN Append(@, s.msg \o delta) ELSE @]

\* Mutant of onLine: the delta is put in front of msg.
onLine_Prepend(s, delta) ==
  [s EXCEPT !.msg = delta \o s.msg,
            !.queued = IF hasUpdate /\ ~s.isUpdating THEN @ + 1 ELSE @,
            !.schedAt = IF hasUpdate /\ ~s.isUpdating
                        THEN Append(@, delta \o s.msg) ELSE @]

\* Mutant of onLine: the task is attached twice, chain.then(task).then(task).
onLine_TwoLinks(s, delta) ==
  [s EXCEPT !.msg = s.msg \o delta,
            !.queued = IF hasUpdate /\ ~s.isUpdating THEN @ + 2 ELSE @,
            !.schedAt = IF hasUpdate /\ ~s.isUpdating
                        THEN @ \o <<s.msg \o delta, s.msg \o delta>> ELSE @]

\* The 'line' listener's callback: msg += delta, and a new chain link unless
\* isUpdating.
onLine(s, delta) ==
  [s EXCEPT !.msg = s.msg \o delta,
            !.queued = IF hasUpdate /\ ~s.isUpdating THEN @ + 1 ELSE @,
            !.schedAt = IF hasUpdate /\ ~s.isUpdating
                        THEN Append(@, s.msg \o delta) ELSE @]

\* Mutant of RunChain: a link does not wait for the links before it.
RunChain_NoWait(s) ==
  IF s.queued = 0 THEN s
  ELSE IF s.chainErr # "none" THEN [s EXCEPT !.queued = 0, !.schedAt = <<>>]
  ELSE LET c == s.count + 1
           p == parseResponse(s.msg)
       IN IF ~p.ok
          THEN [s EXCEPT !.count = c, !.isUpdating = TRUE,
                         !.queued = 0, !.schedAt = <<>>,
                         !.chainErr = "parse"]
          ELSE [s EXCEPT !.count = c, !.isUpdating = TRUE,
                         !.queued = @ - 1, !.schedAt = Tail(@),
                         !.calls = Append(@, [seq |-> c, snap |-> p.val,
                                              sched |-> Head(s.schedAt)]),
                         !.inflight = @ \cup {Len(s.calls) + 1}]

\* Mutant of RunChain: onUpdate is passed count before it is incremented.
RunChain_PostIncrement(s) ==
  IF s.queued = 0 THEN s
  ELSE IF s.chainErr # "none" THEN [s EXCEPT !.queued = 0, !.schedAt = <<>>]
  ELSE IF SeqInFlight(s) # {} THEN s
  ELSE LET c == s.count + 1
           p == parseResponse(s.msg)
       IN IF ~p.ok
          THEN [s EXCEPT !.count = c, !.isUpdating = TRUE,
                         !.queued = 0, !.schedAt = <<>>,
                         !.chainErr = "parse"]
          ELSE [s EXCEPT !.count = c, !.isUpdating = TRUE,
                         !.queued = @ - 1, !.schedAt = Tail(@),
                         !.calls = Append(@, [seq |-> s.count, snap |-> p.val,
                                              sched |-> Head(s.schedAt)]),
                         !.inflight = @ \cup {Len(s.calls) + 1}]

\* Mutant of RunChain: the snapshot is the text the link was attached with.
RunChain_SnapAtSchedule(s) ==
  IF s.queued = 0 THEN s
  ELSE IF s.chainErr # "none" THEN [s EXCEPT !.queued = 0, !.schedAt = <<>>]
  ELSE IF SeqInFlight(s) # {} THEN s
  ELSE LET c == s.count + 1
           p == parseResponse(Head(s.schedAt))
       IN IF ~p.ok
          THEN [s EXCEPT !.count = c, !.isUpdating = TRUE,
                         !.queued = 0, !.schedAt = <<>>,
                         !.chainErr = "parse"]
          ELSE [s EXCEPT !.count = c, !.isUpdating = TRUE,
                         !.queued = @ - 1, !.schedAt = Tail(@),
                         !.calls = Append(@, [seq |-> c, snap |-> p.val,
                                              sched |-> Head(s.schedAt)]),
                         !.inflight = @ \cup {Len(s.calls) + 1}]

\* Mutant of RunChain: a link runs although a link before it rejected.
RunChain_IgnoreRejection(s) ==
  IF s.queued = 0 THEN s
  ELSE IF SeqInFlight(s) # {} THEN s
  ELSE LET c == s.count + 1
           p == parseResponse(s.msg)
       IN IF ~p.ok
          THEN [s EXCEPT !.count = c, !.isUpdating = TRUE,
                         !.queued = 0, !.schedAt = <<>>,
                         !.chainErr = "parse"]
          ELSE [s EXCEPT !.count = c, !.isUpdating = TRUE,
                         !.queued = @ - 1, !.schedAt = Tail(@),
                         !.calls = Append(@, [seq |-> c, snap |-> p.val,
                                              sched |-> Head(s.schedAt)]),
                         !.inflight = @ \cup {Len(s.calls) + 1}]

\* The chain: the link at its head runs once the links before it have
\* fulfilled; links attached to a rejected chain never run.
RunChain(s) ==
  IF s.queued = 0 THEN s
  ELSE IF s.chainErr # "none" THEN [s EXCEPT !.queued = 0, !.schedAt = <<>>]
  ELSE IF SeqInFlight(s) # {} THEN s
  ELSE LET c == s.count + 1
           p == parseResponse(s.msg)
       IN IF ~p.ok
          THEN [s EXCEPT !.count = c, !.isUpdating = TRUE,
                         !.queued = 0, !.schedAt = <<>>,
                         !.chainErr = "parse"]
          ELSE [s EXCEPT !.count = c, !.isUpdating = TRUE,
                         !.queued = @ - 1, !.schedAt = Tail(@),
                         !.calls = Append(@, [seq |-> c, snap |-> p.val,
                                              sched |-> Head(s.schedAt)]),
                         !.inflight = @ \cup {Len(s.calls) + 1}]

\* Mutant of finalResponse: the last update is passed the unparsed text.
finalResponse_RawToCallback(s) ==
  LET p == parseResponse(s.msg) IN
  IF ~p.ok THEN [s EXCEPT !.pc = "threw"]
  ELSE IF hasUpdate
  THEN [s EXCEPT !.res = p.val, !.pc = "final",
                 !.calls = Append(@, [seq |-> Null, snap |-> Str(s.msg),
                                      sched |-> s.msg]),
                 !.inflight = @ \cup {Len(s.calls) + 1}]
  ELSE resolve([s EXCEPT !.res = p.val, !.pc = "done"], p.val)

\* Mutant of finalResponse: the last update is skipped while busy.
finalResponse_SkipWhileBusy(s) ==
  LET p == parseResponse(s.msg) IN
  IF ~p.ok THEN [s EXCEPT !.pc = "threw"]
  ELSE IF hasUpdate /\ ~s.isUpdating
  THEN [s EXCEPT !.res = p.val, !.pc = "final",
                 !.calls = Append(@, [seq |-> Null, snap |-> p.val,
                                      sched |-> s.msg]),
                 !.inflight = @ \cup {Len(s.calls) + 1}]
  ELSE resolve([s EXCEPT !.res = p.val, !.pc = "done"], p.val)

\* finalResponse(msg), up to its await.
finalResponse(s) ==
  LET p == parseResponse(s.msg) IN
  IF ~p.ok THEN [s EXCEPT !.pc = "threw"]
  ELSE IF hasUpdate
  THEN [s EXCEPT !.res = p.val, !.pc = "final",
                 !.calls = Append(@, [seq |-> Null, snap |-> p.val,
                                      sched |-> s.msg]),
                 !.inflight = @ \cup {Len(s.calls) + 1}]
  ELSE resolve([s EXCEPT !.res = p.val, !.pc = "done"], p.val)

\* Mutant of AwaitChain: finalResponse is called without awaiting the chain.
AwaitChain_NoWait(s) ==
  IF s.pc # "awaitChain" THEN s
  ELSE IF s.chainErr # "none" THEN [s EXCEPT !.pc = "threw"]
  ELSE finalResponse(s)

\* Mutant of AwaitChain: the final flush also waits for the busy flag, which
\* nothing re-checks when the cool-down timer clears it.
AwaitChain_WaitIdle(s) ==
  IF s.pc # "awaitChain" \/ s.queued > 0 \/ SeqInFlight(s) # {} \/ s.isUpdating
  THEN s
  ELSE IF s.chainErr # "none" THEN [s EXCEPT !.pc = "threw"]
  ELSE finalResponse(s)

\* await chain; await finalResponse(msg).
AwaitChain(s) ==
  IF s.pc # "awaitChain" \/ s.queued > 0 \/ SeqInFlight(s) # {} THEN s
  ELSE IF s.chainErr # "none" THEN [s EXCEPT !.pc = "threw"]
  ELSE finalResponse(s)

\* The microtask checkpoint after a handler.
Drain(s) == AwaitChain(RunChain(s))

----------------------------------------------------------------------------
\* The session before the request is answered.
SessionInit ==
  /\ status = "sent"
  /\ stream = "none"
  /\ lines = 0
  /\ received = <<>>
  /\ tick = FALSE
  /\ errChunks = 0
  /\ errReported = FALSE
  /\ msg = <<>>
  /\ isUpdating = FALSE
  /\ count = 0
  /\ queued = 0
  /\ schedAt = <<>>
  /\ chainErr = "none"
  /\ timers = 0
  /\ calls = <<>>
  /\ inflight = {}
  /\ res = Undefined
  /\ pc = "idle"
  /\ promise = "pending"
  /\ result = Undefined
  /\ rejectKind = "none"

\* A call that has been made and not yet answered, as a record: the fields
\* of the session and of its response.
NewCall ==
  [msg |-> <<>>, isUpdating |-> FALSE, count |-> 0, queued |-> 0,
   schedAt |-> <<>>, chainErr |-> "none", timers |-> 0, calls |-> <<>>,
   inflight |-> {}, res |-> Undefined, pc |-> "idle", promise |-> "pending",
   result |-> Undefined, rejectKind |-> "none",
   status |-> "sent", stream |-> "none", lines |-> 0, errChunks |-> 0,
   errReported |-> FALSE]

Init ==
  /\ peer = NewCall
  /\ json \in BOOLEAN
  /\ hasUpdate \in BOOLEAN
  /\ prefill \in Prefills
  /\ xml = [set |-> FALSE, tags |-> <<>>]
  /\ xText = <<>>
  /\ xData = <<>>
  /\ xOut = TagMap(<<>>)
  /\ xPc = "off"
  /\ SessionInit

\* The request callback is entered with the response.
Response(code) ==
  /\ status = "sent"
  /\ stream = "none"
  /\ stream' = "open"
  /\ IF code >= 400
     THEN /\ status' = "err"
          /\ Apply([Cur EXCEPT !.pc = "error"])
     ELSE /\ status' = "ok"
          /\ Apply([Cur EXCEPT !.msg = prefill, !.isUpdating = FALSE,
                               !.count = 0, !.pc = "consuming"])
  /\ UNCHANGED <<cfgVars, lines, received, tick, errChunks, errReported>>

\* handleError: res.on('data').
ErrData ==
  /\ status = "err"
  /\ stream = "open"
  /\ errChunks < MaxErrChunks
  /\ errChunks' = errChunks + 1
  /\ UNCHANGED <<cfgVars, sessVars, status, stream, lines, received, tick,
                 errReported>>

\* handleError: res.on('end').
ErrEnd ==
  /\ status = "err"
  /\ stream = "open"
  /\ stream' = "ended"
  /\ errReported' = TRUE
  /\ UNCHANGED <<cfgVars, sessVars, status, lines, received, tick, errChunks>>

\* Mutant of Line: onLine is called without the `if (delta)` test.
Line_NoGuard(ev) ==
  /\ status = "ok"
  /\ stream = "open"
  /\ lines < MaxLines
  /\ LET delta == parseDelta(ev) IN
     /\ Apply(onLine(Cur, delta))
     /\ received' = IF delta # <<>> THEN Append(received, delta) ELSE received
  /\ lines' = lines + 1
  /\ tick' = TRUE
  /\ UNCHANGED <<cfgVars, status, stream, errChunks, errReported>>

\* rl.on('line'): one wire event.
Line(ev) ==
  /\ status = "ok"
  /\ stream = "open"
  /\ lines < MaxLines
  /\ LET delta == parseDelta(ev) IN
     /\ Apply(IF delta # <<>> THEN onLine(Cur, delta) ELSE Cur)
     /\ received' = IF delta # <<>> THEN Append(received, delta) ELSE received
  /\ lines' = lines + 1
  /\ tick' = TRUE
  /\ UNCHANGED <<cfgVars, status, stream, errChunks, errReported>>

\* End of the synchronous part of a data chunk.
Checkpoint ==
  /\ tick
  /\ tick' = FALSE
  /\ Apply(Drain(Cur))
  /\ UNCHANGED <<cfgVars, status, stream, lines, received, errChunks,
                 errReported>>

\* rl.once('close'): consumeStreamAsync resolves.
Close ==
  /\ ~tick
  /\ status = "ok"
  /\ stream = "open"
  /\ stream' = "ended"
  /\ Apply(Drain([Cur EXCEPT !.pc = "awaitChain"]))
  /\ UNCHANGED <<cfgVars, status, lines, received, tick, errChunks,
                 errReported>>

\* The promise onUpdate returned fulfils.
CompleteOk(i) ==
  /\ ~tick
  /\ i \in inflight
  /\ IF calls[i].seq # Null
     THEN Apply(Drain([Cur EXCEPT !.inflight = @ \ {i},
                                  !.timers = @ + 1]))
     ELSE Apply(resolve([Cur EXCEPT !.inflight = @ \ {i}, !.pc = "done"],
                        res))
  /\ UNCHANGED <<cfgVars, envVars>>

\* onUpdate throws, or the promise it returned rejects.
CompleteFail(i) ==
  /\ ~tick
  /\ i \in inflight
  /\ IF calls[i].seq # Null
     THEN Apply(Drain([Cur EXCEPT !.inflight = @ \ {i},
                                  !.chainErr = "callback"]))
     ELSE Apply([Cur EXCEPT !.inflight = @ \ {i}, !.pc = "threw"])
  /\ UNCHANGED <<cfgVars, envVars>>

\* A cool-down timer fires.
TimerFire ==
  /\ ~tick
  /\ timers > 0
  /\ Apply([Cur EXCEPT !.isUpdating = FALSE, !.timers = @ - 1])
  /\ UNCHANGED <<cfgVars, envVars>>

\* client.on('timeout').
Timeout ==
  /\ ~tick
  /\ stream \in {"none", "open"}
  /\ stream' = "destroyed"
  /\ Apply(reject(Cur, "timeout"))
  /\ UNCHANGED <<cfgVars, status, lines, received, tick, errChunks,
                 errReported>>

\* client.on('error', reject).
TransportError ==
  /\ ~tick
  /\ stream \in {"none", "open"}
  /\ stream' = "destroyed"
  /\ Apply(reject(Cur, "transport"))
  /\ UNCHANGED <<cfgVars, status, lines, received, tick, errChunks,
                 errReported>>

Next ==
  \/ \E code \in StatusCodes : Response(code)
  \/ ErrData
  \/ ErrEnd
  \/ \E ev \in WireEvents : Line(ev)
  \/ Checkpoint
  \/ Close
  \/ \E i \in inflight : CompleteOk(i)
  \/ \E i \in inflight : CompleteFail(i)
  \/ TimerFire
  \/ Timeout
  \/ TransportError

Spec == Init /\ [][Next]_vars

----------------------------------------------------------------------------
\* parseXml on its own: a call of the xml output transform on a text.
RECURSIVE Concat(_)
Concat(ps) == IF ps = <<>> THEN <<>> ELSE Head(ps) \o Concat(Tail(ps))

XmlTexts ==
  {Concat(ps) : ps \in UNION {[1..k -> Pieces] : k \in 0..MaxPieces}}

XmlInit ==
  /\ json = FALSE
  /\ hasUpdate = FALSE
  /\ prefill = <<>>
  /\ xml \in [set : {TRUE}, tags : AllowLists]
  /\ xText \in XmlTexts
  /\ xData = <<>>
  /\ xOut = TagMap(<<>>)
  /\ xPc = "call"
  /\ peer = NewCall
  /\ SessionInit

\* parseResponse(msg) with xml given: parseXml(msg, xml).
XmlParse ==
  /\ xPc = "call"
  /\ xData' = extractTags(xText)
  /\ xOut' = parseResponse(xText).val
  /\ xPc' = "done"
  /\ UNCHANGED <<json, hasUpdate, prefill, xml, xText, peer, envVars, sessVars>>

XmlNext == XmlParse

XmlSpec == XmlInit /\ [][XmlNext]_vars

----------------------------------------------------------------------------
\* Two chat calls on one LLM instance.  The first call is the session above;
\* the second is the record peer, run by the same handlers on its own closure
\* variables.  Both are given the same options.  A data chunk of the second
\* call is one action: its 'line' events and the checkpoint that follows.
\* PairEvents: a delta of each wire shape and a malformed line.
PairEvents ==
  {[shape |-> "anthropic", text |-> <<"1">>],
   [shape |-> "openai", text |-> <<"[">>],
   [shape |-> "garbage", text |-> <<>>]}

PairChunks == UNION {[1..k -> PairEvents] : k \in 1..2}

\* The 'line' listener applied to the events of a chunk, in order.
RECURSIVE ChunkLines(_, _)
ChunkLines(s, evs) ==
  IF evs = <<>> THEN s
  ELSE LET delta == parseDelta(Head(evs)) IN
       ChunkLines(IF delta # <<>> THEN onLine(s, delta) ELSE s, Tail(evs))

PairInit ==
  /\ json = FALSE
  /\ hasUpdate = TRUE
  /\ prefill \in Prefills
  /\ xml = [set |-> FALSE, tags |-> <<>>]
  /\ xText = <<>>
  /\ xData = <<>>
  /\ xOut = TagMap(<<>>)
  /\ xPc = "off"
  /\ peer = NewCall
  /\ SessionInit

\* rl.on('line') of the first call, within the bound on both calls' lines.
PairLine(ev) ==
  /\ lines + peer.lines < MaxPairLines
  /\ Line(ev)

PeerResponse(code) ==
  /\ ~tick
  /\ peer.status = "sent"
  /\ peer.stream = "none"
  /\ peer' = IF code >= 400
             THEN [peer EXCEPT !.status = "err", !.stream = "open",
                               !.pc = "error"]
             ELSE [peer EXCEPT !.status = "ok", !.stream = "open",
                               !.msg = prefill, !.isUpdating = FALSE,
                               !.count = 0, !.pc = "consuming"]
  /\ UNCHANGED <<optVars, envVars, sessVars>>

PeerErrData ==
  /\ ~tick
  /\ peer.status = "err"
  /\ peer.stream = "open"
  /\ peer.errChunks < MaxErrChunks
  /\ peer' = [peer EXCEPT !.errChunks = @ + 1]
  /\ UNCHANGED <<optVars, envVars, sessVars>>

PeerErrEnd ==
  /\ ~tick
  /\ peer.status = "err"
  /\ peer.stream = "open"
  /\ peer' = [peer EXCEPT !.stream = "ended", !.errReported = TRUE]
  /\ UNCHANGED <<optVars, envVars, sessVars>>

\* Mutant of PeerChunk: msg is a field of the instance, not of the call.
PeerChunk_SharedMsg(evs) ==
  /\ ~tick
  /\ peer.status = "ok"
  /\ peer.stream = "open"
  /\ lines + peer.lines + Len(evs) <= MaxPairLines
  /\ peer' = Drain([ChunkLines(peer, evs) EXCEPT !.lines = @ + Len(evs)])
  /\ msg' = ChunkLines(Cur, evs).msg
  /\ UNCHANGED <<optVars, envVars, isUpdating, count, queued, schedAt,
                 chainErr, timers, calls, inflight, res, pc, promise, result,
                 rejectKind>>

\* A data chunk of the second call.
PeerChunk(evs) ==
  /\ ~tick
  /\ peer.status = "ok"
  /\ peer.stream = "open"
  /\ lines + peer.lines + Len(evs) <= MaxPairLines
  /\ peer' = Drain([ChunkLines(peer, evs) EXCEPT !.lines = @ + Len(evs)])
  /\ UNCHANGED <<optVars, envVars, sessVars>>

PeerClose ==
  /\ ~tick
  /\ peer.status = "ok"
  /\ peer.stream = "open"
  /\ peer' = Drain([peer EXCEPT !.stream = "ended", !.pc = "awaitChain"])
  /\ UNCHANGED <<optVars, envVars, sessVars>>

PeerCompleteOk(i) ==
  /\ ~tick
  /\ i \in peer.inflight
  /\ peer' = IF peer.calls[i].seq # Null
             THEN Drain([peer EXCEPT !.inflight = @ \ {i}, !.timers = @ + 1])
             ELSE resolve([peer EXCEPT !.inflight = @ \ {i}, !.pc = "done"],
                          peer.res)
  /\ UNCHANGED <<optVars, envVars, sessVars>>

PeerCompleteFail(i) ==
  /\ ~tick
  /\ i \in peer.inflight
  /\ peer' = IF peer.calls[i].seq # Null
             THEN Drain([peer EXCEPT !.inflight = @ \ {i},
                                     !.chainErr = "callback"])
             ELSE [peer EXCEPT !.inflight = @ \ {i}, !.pc = "threw"]
  /\ UNCHANGED <<optVars, envVars, sessVars>>

PeerTimerFire ==
  /\ ~tick
  /\ peer.timers > 0
  /\ peer' = [peer EXCEPT !.isUpdating = FALSE, !.timers = @ - 1]
  /\ UNCHANGED <<optVars, envVars, sessVars>>

PeerTimeout ==
  /\ ~tick
  /\ peer.stream \in {"none", "open"}
  /\ peer' = reject([peer EXCEPT !.stream = "destroyed"], "timeout")
  /\ UNCHANGED <<optVars, envVars, sessVars>>

PeerTransportError ==
  /\ ~tick
  /\ peer.stream \in {"none", "open"}
  /\ peer' = reject([peer EXCEPT !.stream = "destroyed"], "transport")
  /\ UNCHANGED <<optVars, envVars, sessVars>>

\* A step of the first call, and a step of the second.
OwnNext ==
  \/ \E code \in StatusCodes : Response(code)
  \/ ErrData
  \/ ErrEnd
  \/ \E ev \in PairEvents : PairLine(ev)
  \/ Checkpoint
  \/ Close
  \/ \E i \in inflight : CompleteOk(i)
  \/ \E i \in inflight : CompleteFail(i)
  \/ TimerFire
  \/ Timeout
  \/ TransportError

PeerNext ==
  \/ \E code \in StatusCodes : PeerResponse(code)
  \/ PeerErrData
  \/ PeerErrEnd
  \/ \E evs \in PairChunks : PeerChunk(evs)
  \/ PeerClose
  \/ \E i \in peer.inflight : PeerCompleteOk(i)
  \/ \E i \in peer.inflight : PeerCompleteFail(i)
  \/ PeerTimerFire
  \/ PeerTimeout
  \/ PeerTransportError

PairNext == OwnNext \/ PeerNext

PairSpec == PairInit /\ [][PairNext]_vars

----------------------------------------------------------------------------
\* A raw-mode call under the scheduling the event loop guarantees: the
\* microtask checkpoint that follows a handler is always run, and a pending
\* timer fires.  The promise an onUpdate invocation returned settles, one way
\* or the other: the callback is the caller's, and a call whose callback
\* never returns is outside what is asked of chat.
LiveInit ==
  /\ peer = NewCall
  /\ json = FALSE
  /\ hasUpdate \in BOOLEAN
  /\ prefill \in Prefills
  /\ xml = [set |-> FALSE, tags |-> <<>>]
  /\ xText = <<>>
  /\ xData = <<>>
  /\ xOut = TagMap(<<>>)
  /\ xPc = "off"
  /\ SessionInit

\* The steps of the call, its wire events drawn from PairEvents.
LiveNext ==
  \/ \E code \in StatusCodes : Response(code)
  \/ ErrData
  \/ ErrEnd
  \/ \E ev \in PairEvents : Line(ev)
  \/ Checkpoint
  \/ Close
  \/ \E i \in inflight : CompleteOk(i)
  \/ \E i \in inflight : CompleteFail(i)
  \/ TimerFire
  \/ Timeout
  \/ TransportError

LiveSpec ==
  /\ LiveInit
  /\ [][LiveNext]_vars
  /\ WF_vars(Checkpoint)
  /\ WF_vars(TimerFire)
  /\ \A i \in 1..(MaxLines + 1) : WF_vars(CompleteOk(i) \/ CompleteFail(i))

----------------------------------------------------------------------------
\* Helpers of the properties.
RECURSIVE Flatten(_)
Flatten(ss) == IF ss = <<>> THEN <<>> ELSE Head(ss) \o Flatten(Tail(ss))

\* The complete text: prefill followed by every delta received.
FullText == prefill \o Flatten(received)

NullCalls == {i \in 1..Len(calls) : calls[i].seq = Null}

\* An onUpdate invocation of this call has failed.
CallbackFailed ==
  chainErr = "callback" \/ (pc = "threw" /\ NullCalls # {})

\* The request callback has run to its end (returned or thrown).
HandlerOver == pc \in {"done", "threw"}

\* C1: in raw mode, on a success response, the value the call resolves with
\* is the prefill followed by the deltas in arrival order, whatever the
\* timing of the onUpdate invocations.
C1_RawResultIsConcat ==
  (promise = "resolved" /\ ~json) => result = Str(FullText)

C1_Witness ==
  /\ promise = "resolved" /\ ~json /\ hasUpdate
  /\ prefill # <<>> /\ Len(received) >= 2 /\ Len(calls) >= 3

\* C2: at every instant at most one onUpdate invocation, sequenced or
\* terminal, has started and not yet completed.
C2_AtMostOneInFlight == Cardinality(inflight) <= 1

C2_Witness == Cardinality(inflight) = 1 /\ queued >= 1 /\ pc = "awaitChain"

\* C3: if onUpdate is configured and the call resolves, the terminal
\* invocation was passed the value the call resolved with, and that value is
\* the output transform of the complete accumulated text.
C3_TerminalArgIsResult ==
  (hasUpdate /\ promise = "resolved") =>
    /\ parseResponse(FullText).ok
    /\ result = parseResponse(FullText).val
    /\ \E i \in NullCalls : calls[i].snap = result

C3_Witness ==
  /\ hasUpdate /\ json /\ promise = "resolved"
  /\ Len(received) >= 2 /\ Len(calls) >= 2

\* C4: with onUpdate configured, once the stream has ended on a success
\* response without a failure, onUpdate has been invoked exactly once with
\* sequence argument null (never more than once), whatever the busy flag and
\* the pending cool-downs; every other invocation carries a sequence number.
C4_ExactlyOneTerminal ==
  /\ Cardinality(NullCalls) <= 1
  /\ (hasUpdate /\ pc \in {"final", "done"}) => Cardinality(NullCalls) = 1
  /\ \A i \in 1..Len(calls) :
       i \notin NullCalls => calls[i].seq \in 1..count

C4_Witness ==
  /\ hasUpdate /\ pc = "done" /\ isUpdating /\ timers > 0
  /\ Cardinality(NullCalls) = 1

\* C5 (as claimed): once a sequenced onUpdate invocation has failed and the
\* request callback has run to its end, the call's promise is rejected.
C5_Claim ==
  (chainErr = "callback" /\ HandlerOver) => promise = "rejected"

\* C6 (as claimed): on a non-success status, once the error body has been
\* drained and reported the call's promise is rejected, and nothing was
\* accumulated and onUpdate was not invoked.
C6_Claim ==
  errReported =>
    /\ promise = "rejected"
    /\ received = <<>>
    /\ calls = <<>>

\* C7 (as claimed): in JSON mode, when the complete text at stream end is
\* valid JSON (and no callback failed), the call resolves to its parsed value.
C7_Claim ==
  (json /\ HandlerOver /\ ~CallbackFailed /\ parseJson(FullText).ok) =>
    /\ promise = "resolved"
    /\ result = parseJson(FullText).val

\* C8 (as claimed): in JSON mode, when the complete text at stream end is
\* not valid JSON, the call's promise is rejected.
C8_Claim ==
  (json /\ HandlerOver /\ ~CallbackFailed /\ ~parseJson(FullText).ok) =>
    promise = "rejected"

\* C9 (as claimed): after the call has been rejected by the timeout, no new
\* onUpdate invocation begins.
C9_Claim ==
  [][rejectKind = "timeout" => Len(calls') = Len(calls)]_vars

\* C10 (as claimed): while an onUpdate invocation is executing no further
\* invocation is scheduled, and the busy flag is true while a sequenced
\* invocation is executing.
C10_Claim ==
  [][inflight # {} =>
       /\ queued' <= queued
       /\ (SeqInFlight(Cur) # {} => isUpdating)]_vars

\* The step begins an onUpdate invocation, and it is a sequenced one.
BeginsSequenced ==
  Len(calls') > Len(calls) /\ calls'[Len(calls')].seq # Null

IsPrefix(a, b) == Len(a) <= Len(b) /\ SubSeq(b, 1, Len(a)) = a

\* C14 (as claimed): at every instant at most one update task is scheduled
\* on the chain and not yet finished.
C14_Claim == queued + Cardinality(SeqInFlight(Cur)) <= 1

\* C15 (as claimed): while a cool-down started by a completed sequenced
\* invocation is pending, the busy flag is set and no sequenced invocation
\* begins.
C15_Claim ==
  [][timers > 0 => (isUpdating /\ ~BeginsSequenced)]_vars

\* C16 (as claimed): no sequenced onUpdate invocation begins after the
\* stream has signalled end-of-input.
C16_Claim ==
  [][stream = "ended" => ~BeginsSequenced]_vars

\* C17: the terminal invocation begins only when every sequenced invocation
\* has completed and none is left on the chain, it is the last invocation to
\* begin, and with onUpdate configured the call resolves only after the
\* terminal invocation has completed.
C17_TerminalIsLast ==
  /\ \A i \in NullCalls :
       /\ i = Len(calls)
       /\ SeqInFlight(Cur) = {}
       /\ queued = 0
  /\ (hasUpdate /\ promise = "resolved") =>
       (NullCalls # {} /\ inflight = {} /\ pc = "done")

C17_Witness ==
  /\ promise = "resolved" /\ Len(calls) >= 3 /\ NullCalls = {Len(calls)}

\* C18: the sequence numbers of the sequenced invocations are 1, 2, 3, ...
\* in the order the invocations begin.
C18_SeqNumbersCountInvocations ==
  \A i \in 1..Len(calls) : calls[i].seq # Null => calls[i].seq = i

C18_Witness ==
  /\ Len(calls) >= 3 /\ calls[3].seq = 3 /\ Len(received) = 3

\* C19: in raw mode the snapshot of an earlier invocation is a prefix of the
\* snapshot of every later one.
C19_SnapshotsGrow ==
  ~json =>
    \A i, j \in 1..Len(calls) :
      i < j => IsPrefix(calls[i].snap.text, calls[j].snap.text)

C19_Witness ==
  /\ ~json /\ Len(calls) >= 3
  /\ Len(calls[1].snap.text) < Len(calls[2].snap.text)
  /\ Len(calls[2].snap.text) < Len(calls[3].snap.text)

\* C20: the snapshot passed to a sequenced invocation is the output
\* transform of msg as it is when the invocation begins, not as it was when
\* the task was scheduled.
C20_SnapshotAtStart ==
  [][BeginsSequenced =>
       calls'[Len(calls')].snap = parseResponse(msg').val]_vars

C20_Witness ==
  \E i \in 1..Len(calls) :
    /\ calls[i].seq # Null
    /\ Len(calls[i].sched) < Len(calls[i].snap.text)
    /\ ~json

\* The sequenced invocations begun so far.
SeqCalls == {i \in 1..Len(calls) : calls[i].seq # Null}

\* C21 (as claimed): the total number of onUpdate invocations is at most the
\* number of non-empty deltas received.
C21_Claim == Len(calls) <= Len(received)

\* C21 (amended): the number of sequenced onUpdate invocations is at most
\* the number of non-empty deltas received; with the terminal invocation the
\* total is at most that number plus one.
C21_SequencedAtMostDeltas ==
  /\ Cardinality(SeqCalls) <= Len(received)
  /\ Len(calls) <= Len(received) + 1

C21_Witness ==
  /\ Len(received) = 2 /\ Cardinality(SeqCalls) = 2 /\ Len(calls) = 3
  /\ lines = 3

\* C22: once a sequenced onUpdate invocation has failed, no onUpdate
\* invocation, sequenced or terminal, begins any more: not in the step of the
\* failure, and not in any later step, whatever deltas arrive.
C22_AbortsAfterFailure ==
  [][(chainErr = "callback" \/ chainErr' = "callback") =>
       Len(calls') = Len(calls)]_vars

\* A delta arrived after the failure and attached a link to the rejected
\* chain; later the stream ended and the request callback threw.
C22_Witness ==
  /\ chainErr = "callback" /\ pc = "threw" /\ stream = "ended"
  /\ Len(received) = 3 /\ Len(calls) = 2 /\ ~isUpdating

\* The malformed wire events: a payload that is not JSON, and JSON with
\* neither delta.text nor choices[0].delta.content.
Malformed == {ev \in WireEvents : ev.shape \in {"other", "garbage"}}

\* C23: a malformed event line raises no error and leaves the session as it
\* was: the accumulated message, the busy flag, the scheduled tasks, the
\* invocation counter, the invocations begun and the state of the call.
C23_MalformedLineIsNoOp ==
  [][\A ev \in Malformed :
       Line(ev) => UNCHANGED <<msg, isUpdating, queued, schedAt, count,
                               chainErr, timers, calls, inflight, pc,
                               promise, rejectKind, received>>]_vars

\* A malformed line was delivered while the scheduler was free and a
\* callback was configured, between two deltas.
C23_Witness ==
  /\ hasUpdate /\ lines = 3 /\ Len(received) = 2 /\ ~isUpdating
  /\ queued = 2 /\ tick

\* C24: two chat calls running on the same LLM instance share no session
\* state: a step of one call (a delta, a callback invocation beginning or
\* completing, a timer, a failure) leaves the accumulated message, busy flag,
\* chain and counter of the other call as they were.
C24_NoSharedState ==
  [][/\ peer' # peer =>
          UNCHANGED <<msg, isUpdating, count, queued, schedAt, chainErr,
                      timers, calls, inflight, pc, promise>>
     /\ <<sessVars, envVars>>' # <<sessVars, envVars>> => peer' = peer]_vars

\* Both calls are under way with different messages: an invocation of the
\* first is running while the second is in cool-down.
C24_Witness ==
  /\ msg # <<>> /\ peer.msg # <<>> /\ msg # peer.msg
  /\ inflight # {} /\ peer.timers > 0 /\ peer.isUpdating

\* C25: in raw mode, on a success response, if the stream signals
\* end-of-input, no onUpdate invocation fails and no timeout fires, then,
\* every invocation begun completing, the call eventually resolves, also when
\* the stream ends while the scheduler is busy or in cool-down.
C25_EventuallyResolves ==
  (/\ <>(status = "ok" /\ stream = "ended")
   /\ [](pc # "threw" /\ chainErr = "none" /\ rejectKind # "timeout"))
  => <>(promise = "resolved")

\* The call resolved although the stream ended during an invocation and the
\* cool-down was still pending at the end.
C25_Witness ==
  /\ ~json /\ hasUpdate /\ status = "ok" /\ stream = "ended"
  /\ promise = "resolved" /\ isUpdating /\ timers > 0
  /\ Len(received) >= 2 /\ Len(calls) >= 2

----------------------------------------------------------------------------
\* Properties of tag extraction, under XmlSpec.
XmlMatches == AllMatches(xText, 1)

\* The trimmed contents, in text order, of the matches whose lower-cased
\* name is key.
RECURSIVE ContentsOf(_, _)
ContentsOf(ms, key) ==
  IF ms = <<>> THEN <<>>
  ELSE (IF LowerName(Head(ms).name) = key
        THEN <<Trim(Head(ms).content)>> ELSE <<>>)
       \o ContentsOf(Tail(ms), key)

Keys(m) == {m[i].key : i \in 1..Len(m)}

\* A closing tag for name, in any letter case, at or after position from.
ClosedLater(text, name, from) ==
  \E j \in from..Len(text) :
    /\ j + Len(name) + 2 <= Len(text)
    /\ text[j] = "<"
    /\ text[j + 1] = "/"
    /\ LowerName(SubSeq(text, j + 2, j + 1 + Len(name))) = LowerName(name)
    /\ text[j + 2 + Len(name)] = ">"

\* The opening tag at p lies inside the span of a match that starts before it.
Swallowed(p) ==
  \E k \in 1..Len(XmlMatches) :
    XmlMatches[k].start < p /\ p < XmlMatches[k].end

\* C11: every matched tag has a property; a tag matched once maps to its
\* trimmed content as a string, a tag matched k >= 2 times to the sequence of
\* its k trimmed contents in text order; parseXml returns these values as
\* they are.
C11_OccurrencesKept ==
  xPc = "done" =>
    /\ \A k \in 1..Len(XmlMatches) :
         LowerName(XmlMatches[k].name) \in Keys(xData)
    /\ \A i \in 1..Len(xData) :
         /\ xData[i].items = ContentsOf(XmlMatches, xData[i].key)
         /\ xData[i].isArray = (Len(xData[i].items) >= 2)
         /\ Len(xData[i].items) >= 1
    /\ \A i \in 1..Len(xOut.items) :
         /\ xOut.items[i].key \in Keys(xData)
         /\ xOut.items[i] = xData[IndexOf(xData, xOut.items[i].key)]

C11_Witness ==
  /\ xPc = "done"
  /\ \E i \in 1..Len(xOut.items) :
       /\ xOut.items[i].isArray
       /\ xOut.items[i].items = << <<"1">>, <<>> >>

\* C12 (as claimed): the keys parseXml returns are exactly the lower-cased
\* allow-list names that were matched as tags in the text.
C12_Claim ==
  xPc = "done" =>
    Keys(xOut.items) =
      {LowerName(xml.tags[i]) : i \in 1..Len(xml.tags)}
        \cap {LowerName(XmlMatches[k].name) : k \in 1..Len(XmlMatches)}

\* C13: an opening tag that the scan reaches and that has no closing tag
\* anywhere later in the text is matched, with everything after it up to the
\* end of the text, trimmed, as its content, and that content is the last
\* one recorded under the tag's lower-cased name.
C13_UnterminatedRunsToEnd ==
  xPc = "done" =>
    \A p \in 1..Len(xText) :
      (/\ OpensAt(xText, p)
       /\ ~Swallowed(p)
       /\ ~ClosedLater(xText, SubSeq(xText, p + 1, WordEnd(xText, p + 1) - 1),
                       p)) =>
        LET name == SubSeq(xText, p + 1, WordEnd(xText, p + 1) - 1)
            rest == Trim(SubSeq(xText, WordEnd(xText, p + 1) + 1, Len(xText)))
            i == IndexOf(xData, LowerName(name))
        IN /\ \E k \in 1..Len(XmlMatches) :
                XmlMatches[k].start = p /\ Trim(XmlMatches[k].content) = rest
           /\ i # 0
           /\ xData[i].items[Len(xData[i].items)] = rest

C13_Witness ==
  /\ xPc = "done"
  /\ Len(XmlMatches) = 2
  /\ XmlMatches[2].end = Len(xText) + 1
  /\ ~ClosedLater(xText, XmlMatches[2].name, XmlMatches[2].start)
  /\ Trim(XmlMatches[2].content) = <<"1">>
  /\ \E i \in 1..Len(xOut.items) : xOut.items[i].items = << <<"1">> >>

\* A closing tag at j whose name is name up to letter case.
ClosesAnyCase(text, j, name) ==
  /\ j + Len(name) + 2 <= Len(text)
  /\ text[j] = "<"
  /\ text[j + 1] = "/"
  /\ LowerName(SubSeq(text, j + 2, j + 1 + Len(name))) = LowerName(name)
  /\ text[j + 2 + Len(name)] = ">"

\* C26 (as claimed): tag names are matched without regard to letter case:
\* the segment of a matched opening tag ends at the first closing tag whose
\* name equals its name up to letter case, and its trimmed content is stored
\* under the lower-cased name.
C26_Claim ==
  xPc = "done" =>
    \A k \in 1..Len(XmlMatches) :
      LET m == XmlMatches[k]
          J == {j \in m.cs..Len(xText) : ClosesAnyCase(xText, j, m.name)}
      IN J # {} =>
           /\ m.content = SubSeq(xText, m.cs, MinOf(J) - 1)
           /\ \E i \in 1..Len(xData) :
                /\ xData[i].key = LowerName(m.name)
                /\ \E n \in 1..Len(xData[i].items) :
                     xData[i].items[n] = Trim(SubSeq(xText, m.cs, MinOf(J) - 1))

====
